---- MODULE Spec2Model ----
(***************************************************************************)
(* A model of the GitHub MCP server (src/server.py): the sliding-window    *)
(* rate limiter, the time-bounded cache, the lazily built provider client  *)
(* and the nine tool handlers that compose them.                           *)
(*                                                                         *)
(* The clock (time.time()) is an integer number of seconds.  The hosted    *)
(* provider is the environment: each provider call answers "ok" or fails,  *)
(* and the answer is drawn where the handler makes the call.               *)
(***************************************************************************)
EXTENDS Integers, Sequences, FiniteSets, TLC

(***************************************************************************)
(* Program constants.                                                      *)
(***************************************************************************)
RATE_LIMIT == 100

RATE_WINDOW == 3600

CACHE_TTL == 300

MAX_FILE_BYTES == 1048576

SEARCH_LIMIT == 10

(***************************************************************************)
(* Bounds of the model.                                                    *)
(***************************************************************************)
\* handler invocations explored by the general workload
MaxCalls == 2

\* clock advances explored by the general workload
MaxTicks == 1

\* clock advances explored by the burst workload
MaxRateTicks == 2

\* in the burst workload the clock may advance only while the busy tool's
\* record is empty or within BurstSlack entries of RATE_LIMIT
BurstSlack == 1

\* in the interleaved workload, how far below RATE_LIMIT the record may be
\* when an invocation starts before the others have finished
ConcSlack == 2

\* clock advances explored by the interleaved workload
MaxConcTicks == 1

\* handler invocations in flight at once in the interleaved workload
ConcProcs == 2

\* calls of get_github_client each thread makes in the first-use workload
MaxClientCalls == 2

\* reads of the lookup workload, all threads together
MaxLookupReads == 3

\* clock advances explored by the lookup workload
MaxLookupTicks == 1

\* seconds the clock may advance between two clock reads of one invocation
MaxLag == 2

\* invocations during which the clock advances
MaxLags == 1

\* handler invocations explored by the write-then-read workload
MaxStaleCalls == 3

\* clock advances explored by the write-then-read workload
MaxStaleTicks == 1

\* handler invocations explored by the status workload
MaxStatusCalls == 3

\* clock advances explored by the status workload
MaxStatusTicks == 1

\* clock advances explored by the oversized workload
MaxSizeTicks == 1

\* clock advances explored by the two-tool workload
MaxIsoTicks == 2

\* rate-limited invocations, connection_status invocations per thread and
\* clock advances explored by the status-race workload
MaxRaceCalls == 2
MaxRaceStatus == 1
MaxRaceTicks == 1

\* calls of the second tool explored by the two-tool workload
MaxIsoCalls == 2

VARIABLES
  now,            \* time.time()
  rate_limiter,   \* tool name -> list of timestamps (defaultdict(list))
  cache,          \* cache key -> (value, timestamp)
  github_client,  \* _github_client: None or the handle
  result,         \* what the last handler invocation returned (or raised)
  last,           \* what the last handler invocation did (history)
  workload,       \* which workload drives the handlers (never changes)
  ncalls,         \* handler invocations so far (general workload)
  nticks,         \* clock advances so far
  procs,          \* interleaved workload: each invocation's position
  accepted,       \* interleaved workload: timestamps check_rate_limit accepted
  frames,         \* first-use and lookup workloads: each invocation's frame
  built,          \* how many times Github(token) was constructed (history)
  nlags,          \* invocations during which the clock advanced
  order,          \* the keys of rate_limiter in insertion order (dict order)
  heap,           \* lookup workload: the result dicts built, each as it is now
  refs            \* lookup workload: cache key -> the dict of heap its entry holds

vars == <<now, rate_limiter, cache, github_client, result, last, workload,
          ncalls, nticks, procs, accepted, frames, built, nlags, order, heap,
          refs>>

(***************************************************************************)
(* Values.                                                                 *)
(***************************************************************************)
None == [none |-> TRUE]

\* os.getenv("GITHUB_TOKEN") when the variable is not set
Unset == "<unset>"

\* a credential the provider refuses
Revoked == "ghp_revoked"

RateLimitedTools ==
  {"create_or_update_file", "get_file_contents", "list_repos", "get_repo_info",
   "list_branches", "create_branch", "search_code", "create_pull_request"}

Tools == RateLimitedTools \cup {"connection_status"}

(***************************************************************************)
(* Strings as the handlers measure them.  A string is a sequence of runs,  *)
(* [cp |-> code point, n |-> repetitions]: len(s) is the number of code    *)
(* points, s.encode('utf-8') has one to four bytes per code point and      *)
(* raises UnicodeEncodeError on a surrogate.                               *)
(***************************************************************************)
Str(cp, n) == <<[cp |-> cp, n |-> n]>>

IsSurrogate(cp) == cp >= 55296 /\ cp <= 57343

Utf8Width(cp) ==
  IF cp < 128 THEN 1 ELSE IF cp < 2048 THEN 2 ELSE IF cp < 65536 THEN 3 ELSE 4

Encodable(s) == \A i \in 1..Len(s) : s[i].n = 0 \/ ~IsSurrogate(s[i].cp)

RECURSIVE Utf8Len(_)
Utf8Len(s) ==
  IF s = <<>> THEN 0 ELSE Head(s).n * Utf8Width(Head(s).cp) + Utf8Len(Tail(s))

RECURSIVE StrLen(_)
StrLen(s) == IF s = <<>> THEN 0 ELSE Head(s).n + StrLen(Tail(s))

\* a mutant of FileTooLarge: the size check counts characters, not bytes
FileTooLargeChars(content) == StrLen(content) > MAX_FILE_BYTES

\* len(content.encode('utf-8')) > 1024 * 1024
FileTooLarge(content) == Utf8Len(content) > MAX_FILE_BYTES

(***************************************************************************)
(* Dictionaries.                                                           *)
(***************************************************************************)
Put(d, k, v) == [x \in DOMAIN d \cup {k} |-> IF x = k THEN v ELSE d[x]]

Del(d, k) == [x \in DOMAIN d \ {k} |-> d[x]]

(***************************************************************************)
(* The sliding-window rate limiter.                                        *)
(***************************************************************************)
\* rate_limiter[tool_name] of a defaultdict(list)
Record(rl, tool_name) == IF tool_name \in DOMAIN rl THEN rl[tool_name] ELSE <<>>

\* a mutant of Active: the boundary value RATE_WINDOW is kept in the window
ActiveInclusive(ts, t) ==
  LET Keep(x) == t - x <= RATE_WINDOW IN SelectSeq(ts, Keep)

\* [t for t in timestamps if now - t < RATE_WINDOW]
Active(ts, t) ==
  LET Keep(x) == t - x < RATE_WINDOW IN SelectSeq(ts, Keep)

\* every timestamp of every record, whatever the tool
RECURSIVE AllTimestamps(_)
AllTimestamps(rl) ==
  IF DOMAIN rl = {} THEN <<>>
  ELSE LET T == CHOOSE T \in DOMAIN rl : TRUE
       IN rl[T] \o AllTimestamps(Del(rl, T))

\* a mutant of check_rate_limit: one ceiling for all tools together
check_rate_limit_shared(rl, tool_name, t) ==
  LET kept == Active(Record(rl, tool_name), t) IN
  IF Len(Active(AllTimestamps(rl), t)) >= RATE_LIMIT
  THEN [ok |-> FALSE, rl |-> Put(rl, tool_name, kept)]
  ELSE [ok |-> TRUE, rl |-> Put(rl, tool_name, Append(kept, t))]

\* a mutant of check_rate_limit: the ceiling is compared with > instead of >=
check_rate_limit_off_by_one(rl, tool_name, t) ==
  LET kept == Active(Record(rl, tool_name), t) IN
  IF Len(kept) > RATE_LIMIT
  THEN [ok |-> FALSE, rl |-> Put(rl, tool_name, kept)]
  ELSE [ok |-> TRUE, rl |-> Put(rl, tool_name, Append(kept, t))]

\* check_rate_limit(tool_name) at time t: the answer and the new rate_limiter
check_rate_limit(rl, tool_name, t) ==
  LET kept == Active(Record(rl, tool_name), t) IN
  IF Len(kept) >= RATE_LIMIT
  THEN [ok |-> FALSE, rl |-> Put(rl, tool_name, kept)]
  ELSE [ok |-> TRUE, rl |-> Put(rl, tool_name, Append(kept, t))]

(***************************************************************************)
(* The time-bounded cache.                                                 *)
(***************************************************************************)
\* a mutant of get_cached: an entry of age CACHE_TTL is still served
get_cached_inclusive(c, key, t) ==
  IF key \in DOMAIN c
  THEN IF t - c[key].timestamp <= CACHE_TTL
       THEN [value |-> c[key].value, cache |-> c]
       ELSE [value |-> None, cache |-> Del(c, key)]
  ELSE [value |-> None, cache |-> c]

\* a mutant of get_cached: the expiry test is reversed
get_cached_reversed(c, key, t) ==
  IF key \in DOMAIN c
  THEN IF t - c[key].timestamp > CACHE_TTL
       THEN [value |-> c[key].value, cache |-> c]
       ELSE [value |-> None, cache |-> Del(c, key)]
  ELSE [value |-> None, cache |-> c]

\* a mutant of get_cached: an expired entry is not deleted
get_cached_no_evict(c, key, t) ==
  IF key \in DOMAIN c /\ t - c[key].timestamp < CACHE_TTL
  THEN [value |-> c[key].value, cache |-> c]
  ELSE [value |-> None, cache |-> c]

\* get_cached(key) at time t: the value (or None) and the new cache
get_cached(c, key, t) ==
  IF key \in DOMAIN c
  THEN IF t - c[key].timestamp < CACHE_TTL
       THEN [value |-> c[key].value, cache |-> c]
       ELSE [value |-> None, cache |-> Del(c, key)]
  ELSE [value |-> None, cache |-> c]

\* a mutant of set_cache: every payload is stored under one fixed key
set_cache_misplaced(c, key, value, t) ==
  Put(c, "o/r:main:a", [value |-> value, timestamp |-> t])

\* set_cache(key, value) at time t
set_cache(c, key, value, t) == Put(c, key, [value |-> value, timestamp |-> t])

\* f"{repo}:{branch}:{path}"
cache_key(repo, branch, path) == repo \o ":" \o branch \o ":" \o path

(***************************************************************************)
(* The provider client.                                                    *)
(***************************************************************************)
\* get_github_client() when os.getenv("GITHUB_TOKEN") is token
get_github_client(client, token) ==
  IF client = None
  THEN IF token = Unset \/ token = ""
       THEN [raised |-> TRUE, client |-> client]
       ELSE [raised |-> FALSE, client |-> [none |-> FALSE, token |-> token]]
  ELSE [raised |-> FALSE, client |-> client]


\* str(e) of the exception behind a failed provider call
ErrorText(a) ==
  IF a = "exc" THEN "ConnectionError" ELSE "GithubException " \o a

(***************************************************************************)
(* Result envelopes.                                                       *)
(***************************************************************************)
Failure(description) == [success |-> FALSE, error |-> description]

RateLimitError == Failure("Rate limit exceeded (100/hour)")

\* an exception that leaves the handler instead of an envelope
Raised(exception) == [raised |-> exception]

IsEnvelope(r) == "success" \in DOMAIN r

IsFailure(r) == IsEnvelope(r) /\ r.success = FALSE

IsSuccess(r) == IsEnvelope(r) /\ r.success = TRUE

(***************************************************************************)
(* The inputs of a workload: the arguments the transport passes, the       *)
(* environment's credential and the provider's answers.  The general       *)
(* workload varies everything over a few invocations; the other workloads  *)
(* repeat one call against a provider that mostly succeeds.                *)
(***************************************************************************)
Repos == {"o/r"}

\* "main:docs" and "docs:a" make two triples share the key "o/r:main:docs:a"
Branches == IF workload # "general" THEN {"main"} ELSE {"main", "main:docs"}

Paths == IF workload # "general" THEN {"a"} ELSE {"a", "docs:a"}

\* what os.getenv("GITHUB_TOKEN") may return; it is read only while the
\* handle is unset
Tokens ==
  IF github_client # None THEN {Unset}
  ELSE IF workload \notin {"general", "oversized"} THEN {"ghp_valid"}
  ELSE {Unset, "", "ghp_valid", Revoked}

\* "ok", or the exception the call raises: GithubException with status 404,
\* 409 or 401, or another exception ("exc")
Outcomes ==
  IF workload = "general" THEN {"ok", "404", "409", "exc"}
  ELSE IF workload = "two tools" THEN {"ok"}
  ELSE {"ok", "409"}

\* what the provider answers to a call made through handle g: it refuses a
\* revoked credential with status 401
Answers(g) == IF g.token = Revoked THEN {"401"} ELSE Outcomes

Shas == {"s1"}

\* the content argument of create_or_update_file
WriteContents ==
  IF workload = "write then read" THEN {Str(97, 1), Str(98, 2)}
  ELSE IF workload = "oversized"
  THEN {Str(128512, 262144), Str(8364, 349526), Str(97, 1048577)}
  ELSE IF workload # "general" THEN {Str(97, 1)}
  ELSE {Str(97, 1), Str(128512, 262144), Str(97, 1048577), Str(8364, 349526),
        Str(55296, 1)}

\* the files the provider serves: UTF-8 text, or bytes that are not UTF-8
ReadFiles ==
  IF workload # "general" THEN {[utf8 |-> TRUE, text |-> Str(97, 1)]}
  ELSE {[utf8 |-> TRUE, text |-> Str(97, 1)], [utf8 |-> TRUE, text |-> Str(233, 2)],
        [utf8 |-> FALSE, text |-> <<>>]}

\* base64.b64decode(file.content).decode('utf-8')
Decoded(file) == [raised |-> ~file.utf8, text |-> file.text]

(***************************************************************************)
(* The history of one handler invocation.                                  *)
(***************************************************************************)
\*   id        flips at every invocation
\*   tool, at  the handler invoked, and the clock it found
\*   end       the last clock reading of the invocation
\*   lookedAt  the clock reading of get_cached's expiry test (-1: none)
\*   checked   check_rate_limit was called; admitted: it answered True
\*   before    the length of the tool's record when the handler was entered
\*   oldest    the first timestamp of that record (-1 if it was empty)
\*   getclient get_github_client was called
\*   calls     the provider calls made, in order, each with its answer
\*   lookup    get_cached was called; expired: it found and deleted an entry
\*   stored    set_cache was called
\*   key       the cache key of a read, or of the file a write names
\*   text      the content argument of a write
\*   args      the (repo, branch, path) arguments of a read or a write
\*   bytes     the UTF-8 length of a write's content (-1: not encodable)
\*   earlier   the tools invoked before this invocation
\*   reply     the data the provider holds for the handler's request
\*   prev      the invocation before this one: its tool, args, key and text,
\*             and whether it returned success
NoTrace ==
  [id |-> 0, tool |-> "", at |-> 0, end |-> 0, lookedAt |-> -1,
   checked |-> FALSE, admitted |-> FALSE,
   before |-> 0, oldest |-> -1, getclient |-> FALSE, calls |-> <<>>,
   lookup |-> FALSE, expired |-> FALSE, stored |-> FALSE, key |-> "", bytes |-> 0,
   earlier |-> {}, reply |-> None, text |-> <<>>, args |-> <<>>,
   prev |-> [tool |-> "", args |-> <<>>, key |-> "", text |-> <<>>,
             success |-> FALSE]]

\* the invocation of tool without a rate-limit check
Unchecked(tool) == [NoTrace EXCEPT !.tool = tool, !.at = now, !.end = now]

\* the invocation of tool after check_rate_limit answered adm
Checked(tool, adm) ==
  [NoTrace EXCEPT !.tool = tool, !.at = now, !.end = now, !.checked = TRUE,
                  !.admitted = adm.ok,
                  !.before = Len(Record(rate_limiter, tool)),
                  !.oldest = IF Record(rate_limiter, tool) = <<>> THEN -1
                             ELSE Head(Record(rate_limiter, tool))]

Called(tr, name, answer, sha) ==
  [tr EXCEPT !.calls = Append(@, [call |-> name, answer |-> answer, sha |-> sha])]

CallNames(tr) == {tr.calls[i].call : i \in 1..Len(tr.calls)}

\* the two-tool workload: a second tool is called, at most MaxIsoCalls times,
\* once the first is at its ceiling; the first may then be called again
TwoTools(tool) ==
  LET others == DOMAIN rate_limiter \ {tool}
      mine   == Len(Record(rate_limiter, tool))
  IN /\ Cardinality(others) <= 1
     /\ \A T \in others :
          \/ mine >= RATE_LIMIT
          \/ Len(rate_limiter[T]) >= RATE_LIMIT /\ mine < MaxIsoCalls

\* how far the clock may advance before the next clock reading of the
\* invocation in progress; in the workloads that fill a record the clock
\* advances only between bursts
Lags ==
  IF /\ nlags < MaxLags
     /\ workload \in {"burst", "two tools"} =>
          \A T \in DOMAIN rate_limiter :
             Len(rate_limiter[T]) = 0 \/ Len(rate_limiter[T]) >= RATE_LIMIT - BurstSlack
  THEN 0..MaxLag ELSE {0}

\* the keys of rl in insertion order, given those of rate_limiter
Inserted(rl) ==
  LET fresh == DOMAIN rl \ DOMAIN rate_limiter
  IN IF fresh = {} THEN order ELSE Append(order, CHOOSE T \in fresh : TRUE)

\* the handler returns (or raises) res, leaving the shared structures as
\* given; the clock stands at the invocation's last reading
Return(rl, c, g, res, tr) ==
  /\ workload = "general" => ncalls < MaxCalls
  /\ workload = "write then read" => ncalls < MaxStaleCalls
  /\ workload = "status" => ncalls < MaxStatusCalls
  /\ workload = "burst" => DOMAIN rate_limiter \subseteq {tr.tool}
  /\ workload = "two tools" => TwoTools(tr.tool)
  /\ now' = tr.end
  /\ nlags' = IF tr.end > now THEN nlags + 1 ELSE nlags
  /\ rate_limiter' = rl
  /\ order' = Inserted(rl)
  /\ cache' = c
  /\ github_client' = g
  /\ result' = res
  /\ last' = [tr EXCEPT !.id = 1 - last.id,
                         !.earlier = last.earlier \cup ({last.tool} \ {""}),
                         !.prev = [tool |-> last.tool, args |-> last.args,
                                   key |-> last.key, text |-> last.text,
                                   success |-> IsSuccess(result)]]
  /\ ncalls' = IF workload \in {"general", "write then read", "status"}
               THEN ncalls + 1 ELSE ncalls
  /\ built' = IF github_client = None /\ g # None THEN built + 1 ELSE built
  /\ UNCHANGED <<workload, nticks, procs, accepted, frames,
                 heap, refs>>

(***************************************************************************)
(* create_or_update_file                                                   *)
(***************************************************************************)
WriteSuccess(action, path, content) ==
  [success |-> TRUE, action |-> action, path |-> path, size |-> Utf8Len(content)]

\* repository.create_file(...) in the handler of the inner GithubException
CreateFile(rl, g, tr, path, content) ==
  \E a \in Answers(g) :
    LET t == Called(tr, "create_file", a, "")
    IN IF a = "ok"
       THEN Return(rl, cache, g, WriteSuccess("created", path, content), t)
       ELSE Return(rl, cache, g, Failure(ErrorText(a)), t)

\* a mutant of ReadThenWrite: a successful update evicts the file's cache entry
ReadThenWriteEvicting(rl, g, tr, path, content) ==
  \E a2 \in Answers(g) :
    IF a2 = "ok"
    THEN \E sha \in Shas, a3 \in Answers(g) :
           LET t2 == Called(tr, "get_contents", a2, sha)
               t3 == Called(t2, "update_file", a3, sha)
           IN IF a3 = "ok"
              THEN Return(rl, IF tr.key \in DOMAIN cache THEN Del(cache, tr.key)
                              ELSE cache,
                          g, WriteSuccess("updated", path, content), t3)
              ELSE IF a3 = "404"
              THEN CreateFile(rl, g, t3, path, content)
              ELSE Return(rl, cache, g, Failure(ErrorText(a3)), t3)
    ELSE LET t2 == Called(tr, "get_contents", a2, "")
         IN IF a2 = "404"
            THEN CreateFile(rl, g, t2, path, content)
            ELSE Return(rl, cache, g, Failure(ErrorText(a2)), t2)

\* the inner try: get_contents, then update_file with the sha read; a
\* GithubException of status 404 raised by either leads to create_file
ReadThenWrite(rl, g, tr, path, content) ==
  \E a2 \in Answers(g) :
    IF a2 = "ok"
    THEN \E sha \in Shas, a3 \in Answers(g) :
           LET t2 == Called(tr, "get_contents", a2, sha)
               t3 == Called(t2, "update_file", a3, sha)
           IN IF a3 = "ok"
              THEN Return(rl, cache, g, WriteSuccess("updated", path, content), t3)
              ELSE IF a3 = "404"
              THEN CreateFile(rl, g, t3, path, content)
              ELSE Return(rl, cache, g, Failure(ErrorText(a3)), t3)
    ELSE LET t2 == Called(tr, "get_contents", a2, "")
         IN IF a2 = "404"
            THEN CreateFile(rl, g, t2, path, content)
            ELSE Return(rl, cache, g, Failure(ErrorText(a2)), t2)

create_or_update_file(repo, path, content, message, branch) ==
  LET adm == check_rate_limit(rate_limiter, "create_or_update_file", now)
      tr  == [Checked("create_or_update_file", adm) EXCEPT
                !.bytes = IF Encodable(content) THEN Utf8Len(content) ELSE -1,
                !.key = cache_key(repo, branch, path), !.text = content,
                !.args = <<repo, branch, path>>]
  IN
  IF ~adm.ok
  THEN Return(adm.rl, cache, github_client, RateLimitError, tr)
  ELSE IF ~Encodable(content)
  THEN Return(adm.rl, cache, github_client, Raised("UnicodeEncodeError"), tr)
  ELSE IF FileTooLarge(content)
  THEN Return(adm.rl, cache, github_client, Failure("File too large (max 1MB)"), tr)
  ELSE \E token \in Tokens :
    LET g  == get_github_client(github_client, token)
        tg == [tr EXCEPT !.getclient = TRUE]
    IN IF g.raised
       THEN Return(adm.rl, cache, g.client, Failure("GITHUB_TOKEN not set"), tg)
       ELSE \E a1 \in Answers(g.client) :
              LET t1 == Called(tg, "get_repo", a1, "")
              IN IF a1 = "ok"
                 THEN ReadThenWrite(adm.rl, g.client, t1, path, content)
                 ELSE Return(adm.rl, cache, g.client, Failure(ErrorText(a1)), t1)

(***************************************************************************)
(* get_file_contents                                                       *)
(***************************************************************************)
ReadSuccess(content) ==
  [success |-> TRUE, content |-> content, size |-> Utf8Len(content), cached |-> FALSE]

\* the try block of get_file_contents, entered after a cache miss that left
\* the cache as c; set_cache reads the clock again, after the provider calls
Fetch(rl, c, tr, key) ==
  \E token \in Tokens :
    LET g  == get_github_client(github_client, token)
        tg == [tr EXCEPT !.getclient = TRUE]
    IN IF g.raised
       THEN Return(rl, c, g.client, Failure("GITHUB_TOKEN not set"), tg)
       ELSE \E a1 \in Answers(g.client) :
              LET t1 == Called(tg, "get_repo", a1, "")
              IN IF a1 # "ok"
                 THEN Return(rl, c, g.client, Failure(ErrorText(a1)), t1)
                 ELSE \E a2 \in Answers(g.client) :
                        LET t2 == Called(t1, "get_contents", a2, "")
                        IN IF a2 # "ok"
                           THEN Return(rl, c, g.client, Failure(ErrorText(a2)), t2)
                           ELSE \E file \in ReadFiles :
                                  LET d == Decoded(file)
                                      r == ReadSuccess(d.text)
                                  IN IF d.raised
                                     THEN Return(rl, c, g.client,
                                                 Failure("UnicodeDecodeError"), t2)
                                     ELSE \E lag \in Lags :
                                            Return(rl,
                                                   set_cache(c, key, r, tr.end + lag),
                                                   g.client, r,
                                                   [t2 EXCEPT !.stored = TRUE,
                                                              !.end = tr.end + lag])

\* a mutant of get_file_contents: the cache is looked up before the rate
\* limit is checked, and a hit is served without a check
get_file_contents_cache_first(repo, path, branch) ==
  LET key == cache_key(repo, branch, path)
      got == get_cached(cache, key, now)
      adm == check_rate_limit(rate_limiter, "get_file_contents", now)
      tu  == [Unchecked("get_file_contents") EXCEPT
                !.key = key, !.args = <<repo, branch, path>>, !.lookup = TRUE,
                !.expired = (key \in DOMAIN cache /\ got.value = None)]
      tr  == [Checked("get_file_contents", adm) EXCEPT
                !.key = key, !.args = <<repo, branch, path>>, !.lookup = TRUE,
                !.expired = (key \in DOMAIN cache /\ got.value = None)]
  IN
  IF got.value # None
  THEN LET hit == [got.value EXCEPT !.cached = TRUE]
       IN Return(rate_limiter, [got.cache EXCEPT ![key].value = hit],
                 github_client, hit, tu)
  ELSE IF ~adm.ok
  THEN Return(adm.rl, got.cache, github_client, RateLimitError, tr)
  ELSE Fetch(adm.rl, got.cache, tr, key)

get_file_contents(repo, path, branch) ==
  LET adm == check_rate_limit(rate_limiter, "get_file_contents", now)
      key == cache_key(repo, branch, path)
      tr  == [Checked("get_file_contents", adm) EXCEPT
                !.key = key, !.args = <<repo, branch, path>>]
  IN
  IF ~adm.ok
  THEN Return(adm.rl, cache, github_client, RateLimitError, tr)
  ELSE \* get_cached reads the clock only when it finds the key
       \E d \in IF key \in DOMAIN cache THEN Lags ELSE {0} :
         LET got == get_cached(cache, key, now + d)
             tl  == [tr EXCEPT !.lookup = TRUE,
                               !.expired = (key \in DOMAIN cache /\ got.value = None),
                               !.lookedAt = IF key \in DOMAIN cache THEN now + d ELSE -1,
                               !.end = now + d]
         IN IF got.value # None
            THEN \* cached["cached"] = True changes the dict the cache holds
                 LET hit == [got.value EXCEPT !.cached = TRUE]
                 IN Return(adm.rl, [got.cache EXCEPT ![key].value = hit],
                           github_client, hit, tl)
            ELSE Fetch(adm.rl, got.cache, tl, key)

(***************************************************************************)
(* The seven handlers that pass one request through to the provider, and   *)
(* connection_status.                                                      *)
(***************************************************************************)
\* the answers to n provider calls made in a row through handle g: all "ok",
\* or "ok" up to the first failure, which ends the conversation
Conversations(g, n) ==
  {[i \in 1..n |-> "ok"]} \cup
  {[i \in 1..k |-> IF i = k THEN a ELSE "ok"] :
     k \in 1..(IF g.token = Revoked THEN 1 ELSE n), a \in Answers(g) \ {"ok"}}

\* try: g = get_github_client(); the provider calls named names, in order;
\* return success.  except Exception: return the failure envelope.  tr.end
\* is the last clock reading of the statements that follow the provider calls.
PassThrough(rl, tr, names, success) ==
  \E token \in Tokens :
    LET g  == get_github_client(github_client, token)
        tg == [tr EXCEPT !.getclient = TRUE]
    IN IF g.raised
       THEN Return(rl, cache, g.client, Failure("GITHUB_TOKEN not set"),
                   [tg EXCEPT !.end = tr.at])
       ELSE \E as \in Conversations(g.client, Len(names)) :
              LET t == [tg EXCEPT !.calls =
                          [i \in 1..Len(as) |->
                             [call |-> names[i], answer |-> as[i], sha |-> ""]]]
              IN IF as[Len(as)] = "ok"
                 THEN Return(rl, cache, g.client, success, t)
                 ELSE Return(rl, cache, g.client, Failure(ErrorText(as[Len(as)])),
                             [t EXCEPT !.end = tr.at])

\* the handlers' common opening: check the rate limit, reject early
Limited(tool, names, success, reply) ==
  LET adm == check_rate_limit(rate_limiter, tool, now)
      tr  == [Checked(tool, adm) EXCEPT !.reply = reply]
  IN IF ~adm.ok
     THEN Return(adm.rl, cache, github_client, RateLimitError, tr)
     ELSE PassThrough(adm.rl, tr, names, success)

\* what the provider lists: repositories, branches
Listings == IF workload # "general" THEN {<<"x">>} ELSE {<<>>, <<"x", "y">>}

list_repos(org) ==
  \E repos \in Listings :
    Limited("list_repos", <<"get_organization", "get_repos">>,
            [success |-> TRUE, repos |-> repos, count |-> Len(repos)], repos)

get_repo_info(repo) ==
  Limited("get_repo_info", <<"get_repo">>, [success |-> TRUE, info |-> repo], repo)

list_branches(repo) ==
  \E branches \in Listings :
    Limited("list_branches", <<"get_repo", "get_branches">>,
            [success |-> TRUE, branches |-> branches, count |-> Len(branches)],
            branches)

create_branch(repo, branch_name, from_branch) ==
  \E sha \in Shas :
    Limited("create_branch", <<"get_repo", "get_branch", "create_git_ref">>,
            [success |-> TRUE, branch |-> branch_name, from |-> from_branch,
             sha |-> sha], sha)

\* what the provider's search finds: the items, and the total it reports
SearchResults ==
  IF workload # "general" THEN {[items |-> <<1>>, total |-> 1]}
  ELSE {[items |-> [i \in 1..n |-> i], total |-> n + more] :
          n \in {0, 3, SEARCH_LIMIT, SEARCH_LIMIT + 1}, more \in {0, 5}}

\* a mutant of FirstResults: every item the provider returns is kept
FirstResultsUncapped(items) == items

\* for i, item in enumerate(results): if i >= 10: break
FirstResults(items) ==
  SubSeq(items, 1, IF Len(items) < SEARCH_LIMIT THEN Len(items) ELSE SEARCH_LIMIT)

search_code(query, repo) ==
  \E found \in SearchResults :
    Limited("search_code", <<"search_code">>,
            [success |-> TRUE, results |-> FirstResults(found.items),
             count |-> Len(FirstResults(found.items)),
             total_count |-> found.total], found)

create_pull_request(repo, title, head, base, body) ==
  Limited("create_pull_request", <<"get_repo", "create_pull">>,
          [success |-> TRUE, pr_number |-> 1, title |-> title], 1)

\* the clock readings of a loop of n iterations that starts at t: one reading
\* per iteration, the clock never going back
RECURSIVE ReadTimes(_, _)
ReadTimes(n, t) ==
  IF n = 0 THEN {<<>>}
  ELSE IF n = 1 THEN {<<t>>}
  ELSE {Append(ts, ts[n - 1] + d) : ts \in ReadTimes(n - 1, t), d \in Lags}

\* tool_status: the usage of every recorded tool, the tools taken in the
\* order of rate_limiter.items(), the i-th at the clock reading times[i]
ToolStatus(rl, keys, times) ==
  [tool_name \in DOMAIN rl |->
     LET i == CHOOSE i \in 1..Len(keys) : keys[i] = tool_name
     IN [used |-> Len(Active(rl[tool_name], times[i])), limit |-> RATE_LIMIT,
         remaining |-> RATE_LIMIT - Len(Active(rl[tool_name], times[i]))]]

connection_status ==
  \E times \in ReadTimes(Len(order), now) :
    PassThrough(rate_limiter,
                [Unchecked("connection_status") EXCEPT
                   !.end = IF times = <<>> THEN now ELSE times[Len(times)]],
                <<"get_user", "get_rate_limit">>,
                [success |-> TRUE, username |-> "user",
                 mcp_rate_limits |-> ToolStatus(rate_limiter, order, times),
                 cache_entries |-> Cardinality(DOMAIN cache),
                 version |-> "2.0-practical"])

(***************************************************************************)
(* The clock.                                                              *)
(***************************************************************************)
TickSteps ==
  IF workload \in {"general", "lookup", "write then read"}
  THEN {CACHE_TTL - 1, CACHE_TTL}
  ELSE {1, RATE_WINDOW - 1}

TickBudget ==
  IF workload = "general" THEN MaxTicks
  ELSE IF workload = "burst" THEN MaxRateTicks
  ELSE IF workload = "oversized" THEN MaxSizeTicks
  ELSE IF workload = "two tools" THEN MaxIsoTicks
  ELSE IF workload = "lookup" THEN MaxLookupTicks
  ELSE IF workload = "status" THEN MaxStatusTicks
  ELSE IF workload = "status race" THEN MaxRaceTicks
  ELSE IF workload = "write then read" THEN MaxStaleTicks ELSE MaxConcTicks

\* in the workloads that fill a record the clock advances only between bursts
TickSlack == IF workload \in {"burst", "oversized"} THEN BurstSlack ELSE ConcSlack

Tick(d) ==
  /\ nticks < TickBudget
  /\ workload \in {"burst", "interleaved", "two tools", "oversized"} =>
       \A t \in DOMAIN rate_limiter :
          Len(rate_limiter[t]) = 0 \/ Len(rate_limiter[t]) >= RATE_LIMIT - TickSlack
  /\ now' = now + d
  /\ nticks' = nticks + 1
  /\ UNCHANGED <<rate_limiter, cache, github_client, result, last, workload,
                 ncalls, procs, accepted, frames, built,
                 nlags, order,
                 heap, refs>>

(***************************************************************************)
(* The server, one invocation at a time.                                   *)
(***************************************************************************)
\* the frame of an invocation that has not started
\*   pc      where the invocation stands
\*   calls   how many invocations this thread has made
\*   token   the local token of get_github_client
\*   g       the handler's local g, the handle get_github_client returned
\*   key     the cache key of a read
\*   ref     the dict the invocation holds (get_cached's value, the handler's
\*           cached or result), as its index in heap (0: none)
\*   timestamp  the local timestamp of get_cached; the clock reading of
\*           set_cache
\*   stale   the key's entry was present and expired when the read started
\*   lookup  how get_cached ended ("hit", "miss", or "fault" if it raised)
\*   out     what the invocation returned or raised
\*   size, pos  the iterator of rate_limiter.items(): the size of the dict
\*           when the iterator was made, the entries it has yielded
\*   tool_name, timestamps, alias  the loop variables of connection_status:
\*           while alias holds, timestamps is the list rate_limiter has under
\*           tool_name; once that key is bound to another list, timestamps
\*           keeps the list it was
\*   now     the local now of the loop body
\*   tool_status  the local tool_status
\*   handler the handler the invocation runs (status-race workload)
\*   called  the provider calls the handler has made
IdleFrame ==
  [pc |-> "idle", calls |-> 0, token |-> Unset, g |-> None, key |-> "",
   ref |-> 0, timestamp |-> 0, stale |-> FALSE, lookup |-> "", out |-> None,
   size |-> 0, pos |-> 0, tool_name |-> "", timestamps |-> <<>>, alias |-> FALSE,
   now |-> 0, tool_status |-> <<>>, handler |-> "", called |-> 0]

\* the locals of a check_rate_limit call that has not started
\*   pc      where the call stands
\*   tool    its argument tool_name; now: its local now
\*   kept    the pruned list, built and not yet stored
IdleProc == [pc |-> "idle", tool |-> "", now |-> 0, kept |-> <<>>]

Boot(w) ==
  /\ now = 0
  /\ rate_limiter = <<>>
  /\ cache = <<>>
  /\ github_client = None
  /\ result = None
  /\ last = NoTrace
  /\ workload = w
  /\ ncalls = 0
  /\ nticks = 0
  /\ procs = [p \in 1..ConcProcs |-> IdleProc]
  /\ accepted = <<>>
  /\ frames = [p \in 1..ConcProcs |-> IdleFrame]
  /\ built = 0
  /\ nlags = 0
  /\ order = <<>>
  /\ heap = <<>>
  /\ refs = <<>>

Init == Boot("general")

InitRate == Boot("burst")

Next ==
  \/ \E d \in TickSteps : Tick(d)
  \/ \E repo \in Repos, path \in Paths, content \in WriteContents, branch \in Branches :
       create_or_update_file(repo, path, content, "msg", branch)
  \/ \E repo \in Repos, path \in Paths, branch \in Branches :
       get_file_contents(repo, path, branch)
  \/ list_repos("Product-Data-Cloud")
  \/ \E repo \in Repos : get_repo_info(repo)
  \/ \E repo \in Repos : list_branches(repo)
  \/ \E repo \in Repos : create_branch(repo, "feature", "main")
  \/ \E repo \in Repos : search_code("q", repo)
  \/ \E repo \in Repos : create_pull_request(repo, "title", "feature", "main", "")
  \/ connection_status

\* the general workload: a few invocations of any tool with any input
Spec == Init /\ [][Next]_vars

\* the burst workload: one rate-limited tool is called until it is rejected
SpecRate == InitRate /\ [][Next]_vars

InitStale == Boot("write then read")

NextStale ==
  \/ \E d \in TickSteps : Tick(d)
  \/ \E repo \in Repos, path \in Paths, content \in WriteContents, branch \in Branches :
       create_or_update_file(repo, path, content, "msg", branch)
  \/ \E repo \in Repos, path \in Paths, branch \in Branches :
       get_file_contents(repo, path, branch)

\* the write-then-read workload: reads and writes of one file
SpecStale == InitStale /\ [][NextStale]_vars

InitStatus == Boot("status")

NextStatus ==
  \/ \E d \in TickSteps : Tick(d)
  \/ list_repos("Product-Data-Cloud")
  \/ \E repo \in Repos : search_code("q", repo)
  \/ connection_status

\* the status workload: two tools are called, then connection_status
SpecStatus == InitStatus /\ [][NextStatus]_vars

InitSize == Boot("oversized")

NextSize ==
  \/ \E d \in TickSteps : Tick(d)
  \/ \E repo \in Repos, path \in Paths, content \in WriteContents, branch \in Branches :
       create_or_update_file(repo, path, content, "msg", branch)

\* the oversized workload: writes of content at and over the size limit,
\* until the rate limiter refuses one
SpecSize == InitSize /\ [][NextSize]_vars

InitIso == Boot("two tools")

\* the two-tool workload: one tool is called until it is rejected, then another
SpecIso == InitIso /\ [][Next]_vars

(***************************************************************************)
(* The server with invocations in flight at once.  Each invocation p has   *)
(* the locals of its check_rate_limit call in procs[p] (tool_name, now and *)
(* the pruned list) and the locals of the handler, of get_cached and of    *)
(* get_github_client in frames[p].  rate_limiter, cache and                *)
(* _github_client are shared and no lock guards them; an invocation can be *)
(* descheduled between any two of the steps below.                         *)
(*                                                                         *)
(* Three workloads: "interleaved" runs check_rate_limit of one tool,       *)
(* "first use" runs get_github_client, "lookup" runs get_file_contents     *)
(* from its rate-limit check to its return.                                *)
(***************************************************************************)
InitConc == Boot("interleaved")

InitClient == Boot("first use")

InitLookup == Boot("lookup")

InitRace == Boot("status race")

Goto(p, pc) == procs' = [procs EXCEPT ![p].pc = pc]

\* check_rate_limit returns: its locals are gone
Leave(p) == procs' = [procs EXCEPT ![p] = IdleProc]

Step(p, pc) == frames' = [frames EXCEPT ![p].pc = pc]

\* an invocation ends, returning (or raising) out
Finish(p, lookup, out) ==
  frames' = [frames EXCEPT ![p].pc = "idle", ![p].lookup = lookup, ![p].out = out]

\* the handler returns (or raises) out: its locals are gone
Done(p, out) ==
  frames' = [frames EXCEPT ![p] =
               [IdleFrame EXCEPT !.calls = frames[p].calls, !.out = out]]

\* check_rate_limit is entered: now = time.time()
EnterLimiter(p, tool_name) ==
  /\ procs[p].pc = "idle"
  /\ procs' = [procs EXCEPT ![p] =
                 [pc |-> "prune", tool |-> tool_name, now |-> now, kept |-> <<>>]]
  /\ UNCHANGED <<now, rate_limiter, cache, github_client, result, last, workload,
                 ncalls, nticks, accepted, built, nlags, order,
                 heap, refs>>

\* check_rate_limit returns to the handler.  Lookup workload: on True the
\* handler builds the cache key (line 144), on False it returns.  Status-race
\* workload: on True the handler enters its try block and calls
\* get_github_client(), on False it returns.  The interleaved workload runs
\* check_rate_limit alone.
Admitted(p, ok) ==
  IF workload = "lookup"
  THEN frames' = [frames EXCEPT ![p] =
         IF ok
         THEN [@ EXCEPT !.pc = "member",
                        !.stale = (frames[p].key \in DOMAIN cache
                                     /\ now - cache[frames[p].key].timestamp
                                          >= CACHE_TTL)]
         ELSE [@ EXCEPT !.pc = "idle", !.out = RateLimitError]]
  ELSE IF workload = "status race"
  THEN IF ok THEN Step(p, "test") ELSE Done(p, RateLimitError)
  ELSE UNCHANGED frames

\* check_rate_limit(tool_name) is called (interleaved workload, which runs
\* the calls of check_rate_limit and nothing else of the handlers)
Enter(p, tool_name) ==
  /\ DOMAIN rate_limiter \subseteq {tool_name}
  /\ \/ \A q \in DOMAIN procs : procs[q].pc = "idle"
     \/ Len(Record(rate_limiter, tool_name)) >= RATE_LIMIT - ConcSlack
  /\ Len(accepted) < RATE_LIMIT + ConcSlack
  /\ EnterLimiter(p, tool_name)
  /\ UNCHANGED frames

\* the right-hand side of line 43: rate_limiter[tool_name] is read (a
\* defaultdict creates the missing key) and the pruned list is built
PruneRead(p) ==
  LET T == procs[p].tool IN
  /\ procs[p].pc = "prune"
  /\ rate_limiter' = IF T \in DOMAIN rate_limiter THEN rate_limiter
                     ELSE Put(rate_limiter, T, <<>>)
  /\ order' = IF T \in DOMAIN rate_limiter THEN order ELSE Append(order, T)
  /\ procs' = [procs EXCEPT ![p].pc = "store",
                            ![p].kept = Active(Record(rate_limiter, T), procs[p].now)]
  /\ UNCHANGED <<now, cache, github_client, result, last, workload, ncalls,
                 nticks, accepted, frames, built, nlags,
                 heap, refs>>

\* the frames once rate_limiter[tool_name] is bound to another list: a
\* connection_status loop that holds the list the key had keeps that list
Orphaned(tool_name) ==
  [q \in DOMAIN frames |->
     IF frames[q].alias /\ frames[q].tool_name = tool_name
     THEN [frames[q] EXCEPT !.alias = FALSE,
                            !.timestamps = Record(rate_limiter, tool_name)]
     ELSE frames[q]]

\* the assignment of line 43: the pruned list, a new list, replaces whatever
\* the record holds by now
PruneStore(p) ==
  /\ procs[p].pc = "store"
  /\ rate_limiter' = Put(rate_limiter, procs[p].tool, procs[p].kept)
  /\ procs' = [procs EXCEPT ![p].pc = "compare", ![p].kept = <<>>]
  /\ frames' = Orphaned(procs[p].tool)
  /\ UNCHANGED <<now, cache, github_client, result, last, workload, ncalls,
                 nticks, accepted, built, nlags, order,
                 heap, refs>>

\* if len(rate_limiter[tool_name]) >= RATE_LIMIT: return False
Compare(p) ==
  /\ procs[p].pc = "compare"
  /\ IF Len(Record(rate_limiter, procs[p].tool)) >= RATE_LIMIT
     THEN Leave(p) /\ Admitted(p, FALSE)
     ELSE Goto(p, "append") /\ UNCHANGED frames
  /\ UNCHANGED <<now, rate_limiter, cache, github_client, result, last, workload,
                 ncalls, nticks, accepted, built, nlags, order,
                 heap, refs>>

\* rate_limiter[tool_name].append(now); return True
AppendNow(p) ==
  /\ procs[p].pc = "append"
  /\ rate_limiter' =
       Put(rate_limiter, procs[p].tool,
           Append(Record(rate_limiter, procs[p].tool), procs[p].now))
  /\ accepted' = Append(accepted, procs[p].now)
  /\ Leave(p)
  /\ Admitted(p, TRUE)
  /\ UNCHANGED <<now, cache, github_client, result, last, workload, ncalls, nticks,
                 built, nlags, order,
                 heap, refs>>

NextConc ==
  \/ \E d \in TickSteps : Tick(d)
  \/ \E p \in DOMAIN procs, tool_name \in RateLimitedTools : Enter(p, tool_name)
  \/ \E p \in DOMAIN procs : PruneRead(p)
  \/ \E p \in DOMAIN procs : PruneStore(p)
  \/ \E p \in DOMAIN procs : Compare(p)
  \/ \E p \in DOMAIN procs : AppendNow(p)

\* the interleaved workload
SpecConc == InitConc /\ [][NextConc]_vars

(***************************************************************************)
(* get_github_client, statement by statement.  A handle built while        *)
(* invocations race carries the identity (id) of the Github object it is.  *)
(***************************************************************************)
\* what os.getenv("GITHUB_TOKEN") may return
ClientTokens ==
  IF workload = "first use" THEN {Unset, "", "ghp_valid"} ELSE {"ghp_valid"}

\* a handler calls get_github_client() (first-use workload)
Call(p) ==
  /\ frames[p].pc = "idle"
  /\ frames[p].calls < MaxClientCalls
  /\ frames' = [frames EXCEPT ![p] =
                  [IdleFrame EXCEPT !.pc = "test", !.calls = frames[p].calls + 1]]
  /\ UNCHANGED <<now, rate_limiter, cache, github_client, result, last, workload,
                 ncalls, nticks, procs, accepted, built, nlags, order,
                 heap, refs>>

\* if _github_client is None:
TestUnset(p) ==
  /\ frames[p].pc = "test"
  /\ IF github_client = None THEN Step(p, "getenv") ELSE Step(p, "return")
  /\ UNCHANGED <<now, rate_limiter, cache, github_client, result, last, workload,
                 ncalls, nticks, procs, accepted, built, nlags, order,
                 heap, refs>>

\* token = os.getenv("GITHUB_TOKEN")
GetEnv(p, token) ==
  /\ frames[p].pc = "getenv"
  /\ frames' = [frames EXCEPT ![p].pc = "check", ![p].token = token]
  /\ UNCHANGED <<now, rate_limiter, cache, github_client, result, last, workload,
                 ncalls, nticks, procs, accepted, built, nlags, order,
                 heap, refs>>

\* if not token: raise ValueError("GITHUB_TOKEN not set"); the handler's
\* except clause turns it into a failure envelope
CheckToken(p) ==
  /\ frames[p].pc = "check"
  /\ IF frames[p].token = Unset \/ frames[p].token = ""
     THEN IF workload = "lookup"
          THEN Finish(p, frames[p].lookup, Failure("GITHUB_TOKEN not set"))
          ELSE IF workload = "status race"
          THEN Done(p, Failure("GITHUB_TOKEN not set"))
          ELSE Finish(p, "", Raised("GITHUB_TOKEN not set"))
     ELSE Step(p, "construct")
  /\ UNCHANGED <<now, rate_limiter, cache, github_client, result, last, workload,
                 ncalls, nticks, procs, accepted, built, nlags, order,
                 heap, refs>>

\* _github_client = Github(token)
Construct(p) ==
  /\ frames[p].pc = "construct"
  /\ github_client' = [none |-> FALSE, token |-> frames[p].token, id |-> built + 1]
  /\ built' = built + 1
  /\ Step(p, "return")
  /\ UNCHANGED <<now, rate_limiter, cache, result, last, workload, ncalls, nticks,
                 procs, accepted, nlags, order,
                 heap, refs>>

\* return _github_client: to the caller of the first-use workload, to
\* g = get_github_client() in the lookup workload (line 151) and in the
\* status-race workload (line 394 of connection_status, line 182 of
\* list_repos, line 315 of search_code)
ReturnHandle(p) ==
  /\ frames[p].pc = "return"
  /\ frames' = [frames EXCEPT ![p].pc = IF workload = "lookup" THEN "fetch"
                                        ELSE IF workload # "status race" THEN "idle"
                                        ELSE IF frames[p].handler = "connection_status"
                                        THEN "user"
                                        ELSE "provider",
                              ![p].out = IF workload = "first use" THEN github_client
                                         ELSE @,
                              ![p].g = github_client]
  /\ UNCHANGED <<now, rate_limiter, cache, github_client, result, last, workload,
                 ncalls, nticks, procs, accepted, built, nlags, order,
                 heap, refs>>

NextClient ==
  \/ \E p \in DOMAIN frames : Call(p)
  \/ \E p \in DOMAIN frames : TestUnset(p)
  \/ \E p \in DOMAIN frames, token \in ClientTokens : GetEnv(p, token)
  \/ \E p \in DOMAIN frames : CheckToken(p)
  \/ \E p \in DOMAIN frames : Construct(p)
  \/ \E p \in DOMAIN frames : ReturnHandle(p)

\* the first-use workload
SpecClient == InitClient /\ [][NextClient]_vars

(***************************************************************************)
(* get_file_contents, step by step: check_rate_limit (the steps above),    *)
(* get_cached (membership test, read of the entry, expiry test, delete),   *)
(* the tagging and the return of a hit, get_github_client (the steps       *)
(* above), the two provider calls, set_cache and the return of the result. *)
(* A result dict is an object: the invocation that built it, the cache     *)
(* entry that holds it and the invocations that read that entry all hold   *)
(* the same dict, so heap keeps each dict once and the others refer to it. *)
(***************************************************************************)
\* the reads started so far
ReadsStarted(fs) ==
  LET RECURSIVE Sum(_)
      Sum(n) == IF n = 0 THEN 0 ELSE fs[n].calls + Sum(n - 1)
  IN Sum(Len(fs))

\* line 140: the handler calls check_rate_limit("get_file_contents")
BeginRead(p, repo, path, branch) ==
  /\ frames[p].pc = "idle"
  /\ ReadsStarted(frames) < MaxLookupReads
  /\ EnterLimiter(p, "get_file_contents")
  /\ frames' = [frames EXCEPT ![p] =
                  [IdleFrame EXCEPT !.pc = "limit", !.calls = frames[p].calls + 1,
                                    !.key = cache_key(repo, branch, path)]]

\* if key in cache:
Member(p) ==
  /\ frames[p].pc = "member"
  /\ IF frames[p].key \in DOMAIN cache
     THEN Step(p, "read")
     ELSE frames' = [frames EXCEPT ![p].pc = "test", ![p].lookup = "miss"]
  /\ UNCHANGED <<now, rate_limiter, cache, github_client, result, last, workload,
                 ncalls, nticks, procs, accepted, built, nlags, order, heap, refs>>

\* value, timestamp = cache[key]: value is the dict the entry holds
ReadEntry(p) ==
  /\ frames[p].pc = "read"
  /\ IF frames[p].key \in DOMAIN cache
     THEN frames' = [frames EXCEPT ![p].pc = "expiry",
                                   ![p].ref = refs[frames[p].key],
                                   ![p].timestamp = cache[frames[p].key].timestamp]
     ELSE Finish(p, "fault", Raised("KeyError"))
  /\ UNCHANGED <<now, rate_limiter, cache, github_client, result, last, workload,
                 ncalls, nticks, procs, accepted, built, nlags, order, heap, refs>>

\* if time.time() - timestamp < CACHE_TTL: return value
Expiry(p) ==
  /\ frames[p].pc = "expiry"
  /\ IF now - frames[p].timestamp < CACHE_TTL
     THEN frames' = [frames EXCEPT ![p].pc = "tag", ![p].lookup = "hit"]
     ELSE Step(p, "delete")
  /\ UNCHANGED <<now, rate_limiter, cache, github_client, result, last, workload,
                 ncalls, nticks, procs, accepted, built, nlags, order, heap, refs>>

\* else: del cache[key]
Delete(p) ==
  /\ frames[p].pc = "delete"
  /\ IF frames[p].key \in DOMAIN cache
     THEN /\ cache' = Del(cache, frames[p].key)
          /\ refs' = Del(refs, frames[p].key)
          /\ frames' = [frames EXCEPT ![p].pc = "test", ![p].lookup = "miss"]
     ELSE /\ UNCHANGED <<cache, refs>>
          /\ Finish(p, "fault", Raised("KeyError"))
  /\ UNCHANGED <<now, rate_limiter, github_client, result, last, workload, ncalls,
                 nticks, procs, accepted, built, nlags, order, heap>>

\* the dict d of the heap becomes value: every holder of the dict sees it,
\* the cache among them while an entry holds d
Mutated(d, value) ==
  /\ heap' = [heap EXCEPT ![d] = value]
  /\ cache' = [K \in DOMAIN cache |->
                 IF refs[K] = d THEN [cache[K] EXCEPT !.value = value]
                 ELSE cache[K]]

\* lines 146-147: if cached: cached["cached"] = True.  The dict is the one
\* the thread read, whatever the cache holds by now.
Tag(p) ==
  /\ frames[p].pc = "tag"
  /\ Mutated(frames[p].ref, [heap[frames[p].ref] EXCEPT !.cached = TRUE])
  /\ Step(p, "served")
  /\ UNCHANGED <<now, rate_limiter, github_client, result, last, workload, ncalls,
                 nticks, procs, accepted, built, nlags, order, refs>>

\* line 148: return cached
ReturnCached(p) ==
  /\ frames[p].pc = "served"
  /\ Finish(p, "hit", heap[frames[p].ref])
  /\ UNCHANGED <<now, rate_limiter, cache, github_client, result, last, workload,
                 ncalls, nticks, procs, accepted, built, nlags, order, heap, refs>>

\* line 152: repository = g.get_repo(repo), through the local handle g
GetRepo(p) ==
  /\ frames[p].pc = "fetch"
  /\ \E a \in Answers(frames[p].g) :
       IF a = "ok" THEN Step(p, "contents")
       ELSE Finish(p, frames[p].lookup, Failure(ErrorText(a)))
  /\ UNCHANGED <<now, rate_limiter, cache, github_client, result, last, workload,
                 ncalls, nticks, procs, accepted, built, nlags, order, heap, refs>>

\* lines 153-161: file = repository.get_contents(path, ref=branch), the
\* decode, and the result dict, a new object only this invocation holds
GetContents(p) ==
  /\ frames[p].pc = "contents"
  /\ \E a \in Answers(frames[p].g) :
       IF a # "ok"
       THEN /\ Finish(p, frames[p].lookup, Failure(ErrorText(a)))
            /\ heap' = heap
       ELSE \E file \in ReadFiles :
              LET d == Decoded(file) IN
              IF d.raised
              THEN /\ Finish(p, frames[p].lookup, Failure("UnicodeDecodeError"))
                   /\ heap' = heap
              ELSE /\ heap' = Append(heap, ReadSuccess(d.text))
                   /\ frames' = [frames EXCEPT ![p].pc = "store",
                                               ![p].ref = Len(heap) + 1]
  /\ UNCHANGED <<now, rate_limiter, cache, github_client, result, last, workload,
                 ncalls, nticks, procs, accepted, built, nlags, order, refs>>

\* lines 164 and 63: set_cache(cache_key, result) evaluates time.time() for
\* the tuple it is about to store; the reading is a local of the call
StoreClock(p) ==
  /\ frames[p].pc = "store"
  /\ frames' = [frames EXCEPT ![p].pc = "assign", ![p].timestamp = now]
  /\ UNCHANGED <<now, rate_limiter, cache, github_client, result, last, workload,
                 ncalls, nticks, procs, accepted, built, nlags, order, heap, refs>>

\* line 63: cache[key] = (value, <the reading>), over whatever entry the key
\* has by now: the entry holds the dict the invocation still has to return
Store(p) ==
  /\ frames[p].pc = "assign"
  /\ cache' = set_cache(cache, frames[p].key, heap[frames[p].ref], frames[p].timestamp)
  /\ refs' = Put(refs, frames[p].key, frames[p].ref)
  /\ Step(p, "result")
  /\ UNCHANGED <<now, rate_limiter, github_client, result, last, workload, ncalls,
                 nticks, procs, accepted, built, nlags, order, heap>>

\* line 165: return result, the dict as it is by now
ReturnResult(p) ==
  /\ frames[p].pc = "result"
  /\ Finish(p, frames[p].lookup, heap[frames[p].ref])
  /\ UNCHANGED <<now, rate_limiter, cache, github_client, result, last, workload,
                 ncalls, nticks, procs, accepted, built, nlags, order, heap, refs>>

NextLookup ==
  \/ \E d \in TickSteps : Tick(d)
  \/ \E p \in DOMAIN frames, repo \in Repos, path \in Paths, branch \in Branches :
       BeginRead(p, repo, path, branch)
  \/ \E p \in DOMAIN procs : PruneRead(p)
  \/ \E p \in DOMAIN procs : PruneStore(p)
  \/ \E p \in DOMAIN procs : Compare(p)
  \/ \E p \in DOMAIN procs : AppendNow(p)
  \/ \E p \in DOMAIN frames : Member(p)
  \/ \E p \in DOMAIN frames : ReadEntry(p)
  \/ \E p \in DOMAIN frames : Expiry(p)
  \/ \E p \in DOMAIN frames : Delete(p)
  \/ \E p \in DOMAIN frames : Tag(p)
  \/ \E p \in DOMAIN frames : ReturnCached(p)
  \/ \E p \in DOMAIN frames : TestUnset(p)
  \/ \E p \in DOMAIN frames, token \in ClientTokens : GetEnv(p, token)
  \/ \E p \in DOMAIN frames : CheckToken(p)
  \/ \E p \in DOMAIN frames : Construct(p)
  \/ \E p \in DOMAIN frames : ReturnHandle(p)
  \/ \E p \in DOMAIN frames : GetRepo(p)
  \/ \E p \in DOMAIN frames : GetContents(p)
  \/ \E p \in DOMAIN frames : StoreClock(p)
  \/ \E p \in DOMAIN frames : Store(p)
  \/ \E p \in DOMAIN frames : ReturnResult(p)

\* the lookup workload
SpecLookup == InitLookup /\ [][NextLookup]_vars

(***************************************************************************)
(* connection_status, statement by statement, while rate-limited           *)
(* invocations run check_rate_limit (the steps above).  The loop of lines  *)
(* 400-407 iterates rate_limiter.items() with no lock: the iterator        *)
(* remembers the size the dict had when it was made and raises             *)
(* RuntimeError at the next entry it is asked for once the size differs,   *)
(* and the list it yields for a key is the list the key is bound to at     *)
(* that moment.                                                            *)
(***************************************************************************)
\* the tools whose invocations run beside connection_status
RaceTools == {"list_repos", "search_code"}

\* the provider calls of a handler's try block, in order
ProviderCalls(tool_name) ==
  IF tool_name = "list_repos" THEN <<"get_organization", "get_repos">>
  ELSE <<"search_code">>

\* the success envelopes a handler may return once its provider calls have
\* answered
Replies(tool_name) ==
  IF tool_name = "list_repos"
  THEN {[success |-> TRUE, repos |-> repos, count |-> Len(repos)] :
          repos \in Listings}
  ELSE {[success |-> TRUE, results |-> FirstResults(found.items),
         count |-> Len(FirstResults(found.items)),
         total_count |-> found.total] : found \in SearchResults}

\* the invocations of rate-limited tools started so far
RaceCalls == Len(accepted) + Cardinality({q \in DOMAIN procs : procs[q].pc # "idle"})

\* an invocation of a rate-limited tool starts: the first statement of its
\* handler calls check_rate_limit(tool_name) (lines 178, 311)
RaceEnter(p, tool_name) ==
  /\ frames[p].pc = "idle"
  /\ RaceCalls < MaxRaceCalls
  /\ EnterLimiter(p, tool_name)
  /\ frames' = [frames EXCEPT ![p] =
                  [IdleFrame EXCEPT !.pc = "limit", !.calls = frames[p].calls,
                                    !.handler = tool_name]]

\* lines 183-184 of list_repos, line 323 of search_code: the next provider
\* call of the handler, through the local handle g; an exception ends the
\* invocation in the failure envelope of the except clause
ProviderCall(p) ==
  /\ frames[p].pc = "provider"
  /\ \E a \in Answers(frames[p].g) :
       IF a # "ok" THEN Done(p, Failure(ErrorText(a)))
       ELSE frames' = [frames EXCEPT
                         ![p].called = frames[p].called + 1,
                         ![p].pc = IF frames[p].called + 1
                                        = Len(ProviderCalls(frames[p].handler))
                                   THEN "reply" ELSE "provider"]
  /\ UNCHANGED <<now, rate_limiter, cache, github_client, result, last, workload,
                 ncalls, nticks, procs, accepted, built, nlags, order, heap, refs>>

\* lines 186-196 of list_repos, lines 326-343 of search_code: the reply is
\* built from what the provider answered and returned
Reply(p) ==
  /\ frames[p].pc = "reply"
  /\ \E success \in Replies(frames[p].handler) : Done(p, success)
  /\ UNCHANGED <<now, rate_limiter, cache, github_client, result, last, workload,
                 ncalls, nticks, procs, accepted, built, nlags, order, heap, refs>>

\* connection_status is invoked: line 394 calls get_github_client()
StatusCall(p) ==
  /\ frames[p].pc = "idle"
  /\ procs[p].pc = "idle"
  /\ frames[p].calls < MaxRaceStatus
  /\ frames' = [frames EXCEPT ![p] =
                  [IdleFrame EXCEPT !.pc = "test", !.calls = frames[p].calls + 1,
                                    !.handler = "connection_status"]]
  /\ UNCHANGED <<now, rate_limiter, cache, github_client, result, last, workload,
                 ncalls, nticks, procs, accepted, built, nlags, order, heap, refs>>

\* line 395: user = g.get_user()
GetUser(p) ==
  /\ frames[p].pc = "user"
  /\ \E a \in Answers(frames[p].g) :
       IF a = "ok" THEN Step(p, "core") ELSE Done(p, Failure(ErrorText(a)))
  /\ UNCHANGED <<now, rate_limiter, cache, github_client, result, last, workload,
                 ncalls, nticks, procs, accepted, built, nlags, order, heap, refs>>

\* line 396: rate_limit = g.get_rate_limit()
GetRateLimit(p) ==
  /\ frames[p].pc = "core"
  /\ \E a \in Answers(frames[p].g) :
       IF a = "ok" THEN Step(p, "items") ELSE Done(p, Failure(ErrorText(a)))
  /\ UNCHANGED <<now, rate_limiter, cache, github_client, result, last, workload,
                 ncalls, nticks, procs, accepted, built, nlags, order, heap, refs>>

\* lines 399-400: tool_status = {} and the iterator of rate_limiter.items()
\* is made, which notes the size of the dict
StatusIter(p) ==
  /\ frames[p].pc = "items"
  /\ frames' = [frames EXCEPT ![p].pc = "next", ![p].tool_status = <<>>,
                              ![p].size = Len(order), ![p].pos = 0]
  /\ UNCHANGED <<now, rate_limiter, cache, github_client, result, last, workload,
                 ncalls, nticks, procs, accepted, built, nlags, order, heap, refs>>

\* line 400: the for statement asks the iterator for its next entry.  A dict
\* whose size is no longer the one noted raises RuntimeError, which the
\* handler's except clause turns into a failure envelope; an exhausted
\* iterator ends the loop; otherwise tool_name and timestamps are bound to
\* the next key, in insertion order, and to the list it has now.
StatusNext(p) ==
  /\ frames[p].pc = "next"
  /\ IF frames[p].size # Len(order)
     THEN Done(p, Failure("dictionary changed size during iteration"))
     ELSE IF frames[p].pos >= frames[p].size
     THEN Step(p, "build")
     ELSE frames' = [frames EXCEPT ![p].pc = "clock",
                                   ![p].pos = frames[p].pos + 1,
                                   ![p].tool_name = order[frames[p].pos + 1],
                                   ![p].alias = TRUE,
                                   ![p].timestamps = <<>>]
  /\ UNCHANGED <<now, rate_limiter, cache, github_client, result, last, workload,
                 ncalls, nticks, procs, accepted, built, nlags, order, heap, refs>>

\* line 401: now = time.time()
StatusClock(p) ==
  /\ frames[p].pc = "clock"
  /\ frames' = [frames EXCEPT ![p].pc = "count", ![p].now = now]
  /\ UNCHANGED <<now, rate_limiter, cache, github_client, result, last, workload,
                 ncalls, nticks, procs, accepted, built, nlags, order, heap, refs>>

\* lines 402-407: recent is counted over the list the loop holds, with the
\* timestamps appended to it so far, and tool_status[tool_name] is set
StatusCount(p) ==
  LET held == IF frames[p].alias THEN rate_limiter[frames[p].tool_name]
              ELSE frames[p].timestamps
      used == Len(Active(held, frames[p].now))
  IN /\ frames[p].pc = "count"
     /\ frames' = [frames EXCEPT
                     ![p].pc = "next", ![p].alias = FALSE, ![p].timestamps = <<>>,
                     ![p].tool_status =
                        Put(@, frames[p].tool_name,
                            [used |-> used, limit |-> RATE_LIMIT,
                             remaining |-> RATE_LIMIT - used])]
     /\ UNCHANGED <<now, rate_limiter, cache, github_client, result, last, workload,
                    ncalls, nticks, procs, accepted, built, nlags, order, heap, refs>>

\* lines 409-422: the success envelope is returned
StatusBuild(p) ==
  /\ frames[p].pc = "build"
  /\ Done(p, [success |-> TRUE, username |-> "user",
              mcp_rate_limits |-> frames[p].tool_status,
              cache_entries |-> Cardinality(DOMAIN cache),
              version |-> "2.0-practical"])
  /\ UNCHANGED <<now, rate_limiter, cache, github_client, result, last, workload,
                 ncalls, nticks, procs, accepted, built, nlags, order, heap, refs>>

NextRace ==
  \/ \E d \in TickSteps : Tick(d)
  \/ \E p \in DOMAIN procs, tool_name \in RaceTools : RaceEnter(p, tool_name)
  \/ \E p \in DOMAIN procs : PruneRead(p)
  \/ \E p \in DOMAIN procs : PruneStore(p)
  \/ \E p \in DOMAIN procs : Compare(p)
  \/ \E p \in DOMAIN procs : AppendNow(p)
  \/ \E p \in DOMAIN frames : StatusCall(p)
  \/ \E p \in DOMAIN frames : TestUnset(p)
  \/ \E p \in DOMAIN frames, token \in ClientTokens : GetEnv(p, token)
  \/ \E p \in DOMAIN frames : CheckToken(p)
  \/ \E p \in DOMAIN frames : Construct(p)
  \/ \E p \in DOMAIN frames : ReturnHandle(p)
  \/ \E p \in DOMAIN frames : ProviderCall(p)
  \/ \E p \in DOMAIN frames : Reply(p)
  \/ \E p \in DOMAIN frames : GetUser(p)
  \/ \E p \in DOMAIN frames : GetRateLimit(p)
  \/ \E p \in DOMAIN frames : StatusIter(p)
  \/ \E p \in DOMAIN frames : StatusNext(p)
  \/ \E p \in DOMAIN frames : StatusClock(p)
  \/ \E p \in DOMAIN frames : StatusCount(p)
  \/ \E p \in DOMAIN frames : StatusBuild(p)

\* the status-race workload
SpecRace == InitRace /\ [][NextRace]_vars

(***************************************************************************)
(* Properties.  A step is an invocation of tool T when last.id flips and   *)
(* last'.tool = T; unprimed variables are the state the handler found.     *)
(***************************************************************************)
Invoked(T) == last'.id # last.id /\ last'.tool = T

\* the timestamps of T's record that lie within the trailing window
InWindow(T) == Active(Record(rate_limiter, T), now)

\* C1: once a tool's record holds RATE_LIMIT timestamps within the trailing
\* RATE_WINDOW seconds, the next invocation of the tool is refused: nothing is
\* recorded, the handler returns the rate-limit envelope, and it neither
\* builds the client, nor calls the provider, nor touches the cache.
C1_RejectedAtCeiling ==
  [][\A T \in Tools :
       (Invoked(T) /\ Len(InWindow(T)) >= RATE_LIMIT) =>
         /\ last'.checked /\ ~last'.admitted
         /\ rate_limiter' = rate_limiter
         /\ result' = [success |-> FALSE, error |-> "Rate limit exceeded (100/hour)"]
         /\ ~last'.getclient /\ github_client' = github_client
         /\ last'.calls = <<>>
         /\ ~last'.lookup /\ ~last'.stored /\ cache' = cache]_vars

\* C1's case: a call was refused at a record of exactly RATE_LIMIT timestamps
C1_Witness ==
  /\ last.tool \in RateLimitedTools
  /\ last.checked /\ ~last.admitted
  /\ IsFailure(result)
  /\ Len(Record(rate_limiter, last.tool)) = RATE_LIMIT
  /\ last.before = RATE_LIMIT

\* C2: when the oldest timestamp a tool's record retains is RATE_WINDOW seconds
\* old or older (the boundary included), the next call of the tool is accepted
\* and recorded; a refused call leaves the record as it was, so refusals never
\* postpone that moment.
C2_ReadmittedAfterWindow ==
  [][\A T \in RateLimitedTools :
       Invoked(T) =>
         /\ (Record(rate_limiter, T) # <<>>
               /\ now - Head(Record(rate_limiter, T)) >= RATE_WINDOW) =>
              /\ last'.admitted
              /\ result' # RateLimitError
              /\ rate_limiter'[T][Len(rate_limiter'[T])] = now
         /\ ~last'.admitted => Record(rate_limiter', T) = Record(rate_limiter, T)]_vars

\* C2's case: a record that held RATE_LIMIT timestamps, the oldest exactly
\* RATE_WINDOW seconds old, admitted the call
C2_Witness ==
  /\ last.tool \in RateLimitedTools
  /\ last.admitted
  /\ last.before = RATE_LIMIT
  /\ last.at - last.oldest = RATE_WINDOW

\* C3 as stated: a read that fetched from the provider leaves its result
\* (tagged cached = False) in the cache under its key; a read of the key that
\* the rate limiter admits less than CACHE_TTL seconds after that entry was
\* stored returns the entry's content and size tagged cached = True, without
\* a provider call.
C3_AdmittedWithinTtl ==
  [][Invoked("get_file_contents") =>
       LET K == last'.key IN
       /\ last'.stored =>
            /\ IsSuccess(result') /\ result'.cached = FALSE
            /\ K \in DOMAIN cache'
            /\ cache'[K].value = result'
       /\ (last'.admitted /\ K \in DOMAIN cache /\ now - cache[K].timestamp < CACHE_TTL) =>
            /\ IsSuccess(result')
            /\ result'.content = cache[K].value.content
            /\ result'.size = cache[K].value.size
            /\ result'.cached = TRUE
            /\ last'.calls = <<>> /\ ~last'.getclient /\ ~last'.stored]_vars

\* C3 as amended: a read that fetched from the provider leaves its result
\* (tagged cached = False) in the cache under its key, with the clock reading
\* of set_cache; an admitted read of the key whose cache lookup reads the
\* clock less than CACHE_TTL seconds after that timestamp returns the entry's
\* content and size tagged cached = True, without a provider call.
C3_SecondReadFromCache ==
  [][Invoked("get_file_contents") =>
       LET K == last'.key IN
       /\ last'.stored =>
            /\ IsSuccess(result') /\ result'.cached = FALSE
            /\ K \in DOMAIN cache'
            /\ cache'[K] = [value |-> result', timestamp |-> last'.end]
       /\ (/\ last'.admitted /\ K \in DOMAIN cache
           /\ last'.lookedAt - cache[K].timestamp < CACHE_TTL) =>
            /\ IsSuccess(result')
            /\ result'.content = cache[K].value.content
            /\ result'.size = cache[K].value.size
            /\ result'.cached = TRUE
            /\ last'.calls = <<>> /\ ~last'.getclient /\ ~last'.stored]_vars

\* C3's case: a read served from an entry written by an earlier read, whose
\* lookup found the entry CACHE_TTL - 1 seconds old
C3_Witness ==
  /\ last.tool = "get_file_contents"
  /\ IsSuccess(result) /\ result.cached = TRUE
  /\ last.calls = <<>>
  /\ last.key \in DOMAIN cache
  /\ cache[last.key].timestamp < last.at
  /\ last.lookedAt - cache[last.key].timestamp = CACHE_TTL - 1
  /\ cache[last.key].value.content = result.content

\* C4: a read of a key admitted when the key's entry is CACHE_TTL seconds old
\* or older is a miss: it calls the provider, and the entry is gone afterwards
\* unless this read's own fetch stored a new one; whatever it returns with
\* success is that fetch's result, tagged cached = False.  A read served from
\* the cache leaves the entry's timestamp as it was.
C4_ExpiredEntryIsMiss ==
  [][\A K \in DOMAIN cache :
       (Invoked("get_file_contents") /\ last'.key = K /\ last'.admitted) =>
         /\ now - cache[K].timestamp >= CACHE_TTL =>
              /\ last'.expired
              /\ last'.calls # <<>>
              /\ IsSuccess(result') => (last'.stored /\ result'.cached = FALSE)
              /\ IF last'.stored
                 THEN cache'[K] = [value |-> result', timestamp |-> last'.end]
                 ELSE K \notin DOMAIN cache'
         /\ ~last'.expired =>
              /\ now - cache[K].timestamp < CACHE_TTL
              /\ IsSuccess(result') /\ result'.cached = TRUE
              /\ K \in DOMAIN cache'
              /\ cache'[K].timestamp = cache[K].timestamp]_vars

\* C4's case: a read found an expired entry, deleted it and fetched again
C4_Witness ==
  /\ last.tool = "get_file_contents"
  /\ last.expired
  /\ last.calls # <<>>
  /\ IsSuccess(result) /\ result.cached = FALSE
  /\ cache[last.key].timestamp = last.end
  /\ last.at >= CACHE_TTL

\* the answer to the invocation's first provider call named name ("none" if
\* the call was not made)
AnswerOf(tr, name) ==
  IF name \in CallNames(tr)
  THEN LET i == CHOOSE i \in 1..Len(tr.calls) :
                  /\ tr.calls[i].call = name
                  /\ \A j \in 1..(i - 1) : tr.calls[j].call # name
       IN tr.calls[i].answer
  ELSE "none"

\* C5: the write handler calls create_file only when its read of the file
\* answered not-found; when the read succeeded it calls update_file with the
\* sha read and nothing else, and ends with action "updated" or a failure
\* envelope; a provider failure other than the read's not-found ends in a
\* failure envelope.
C5_CreateOnlyWhenReadNotFound ==
  last.tool = "create_or_update_file" =>
    LET read == AnswerOf(last, "get_contents") IN
    /\ "create_file" \in CallNames(last) => read = "404"
    /\ read = "ok" =>
         /\ "create_file" \notin CallNames(last)
         /\ \E i \in 1..Len(last.calls) :
              /\ last.calls[i].call = "get_contents"
              /\ i + 1 = Len(last.calls)
              /\ last.calls[i + 1].call = "update_file"
              /\ last.calls[i + 1].sha = last.calls[i].sha
         /\ IsFailure(result) \/ (IsSuccess(result) /\ result.action = "updated")
    /\ (\E i \in 1..Len(last.calls) :
          /\ last.calls[i].answer # "ok"
          /\ ~(last.calls[i].call = "get_contents" /\ last.calls[i].answer = "404"))
         => IsFailure(result)

\* C6: every handler invocation returns an envelope with a boolean success
\* field (and an error description when it failed); nothing is raised to the
\* transport.
C6_AlwaysAnEnvelope ==
  last.tool # "" =>
    /\ IsEnvelope(result)
    /\ result.success \in BOOLEAN
    /\ result.success = FALSE => "error" \in DOMAIN result

\* the accepted timestamps that lie in the RATE_WINDOW seconds ending at w
AcceptedInWindow(w) ==
  {i \in 1..Len(accepted) : accepted[i] <= w /\ w - accepted[i] < RATE_WINDOW}

Occurrences(ts, t) == Cardinality({i \in 1..Len(ts) : ts[i] = t})

\* C7: with invocations of one tool interleaved at the steps of
\* check_rate_limit, at most RATE_LIMIT calls are accepted within any window of
\* RATE_WINDOW seconds, the stored list never holds more than RATE_LIMIT
\* timestamps, and every accepted timestamp still inside the window is in the
\* list.
C7_CheckAndRecordAtomic ==
  workload = "interleaved" =>
    /\ \A w \in {accepted[i] : i \in 1..Len(accepted)} :
         Cardinality(AcceptedInWindow(w)) <= RATE_LIMIT
    /\ \A T \in DOMAIN rate_limiter :
         /\ Len(rate_limiter[T]) <= RATE_LIMIT
         /\ \A t \in {accepted[i] : i \in 1..Len(accepted)} :
              now - t < RATE_WINDOW =>
                Occurrences(rate_limiter[T], t) >= Occurrences(accepted, t)

\* C8: connection_status checks the rate limit under its own name before
\* anything else: an invocation is either recorded in the record of
\* "connection_status" or refused with the rate-limit envelope without a
\* provider call.
C8_StatusIsRateLimited ==
  last.tool = "connection_status" =>
    /\ last.checked
    /\ IF last.admitted
       THEN /\ Record(rate_limiter, "connection_status") # <<>>
            /\ \E i \in 1..Len(rate_limiter["connection_status"]) :
                 rate_limiter["connection_status"][i] = last.at
       ELSE /\ result = RateLimitError
            /\ last.calls = <<>>

\* C9 as stated: an invocation that ends in a failure envelope leaves the
\* rate limiter and the cache as it found them.
C9_FailureChangesNothing ==
  [][\A T \in Tools :
       (Invoked(T) /\ IsFailure(result')) =>
         /\ rate_limiter' = rate_limiter
         /\ cache' = cache]_vars

\* C9 as amended: an invocation that ends in a failure envelope changes the
\* rate limiter only by the admission itself (a call that check_rate_limit
\* accepted keeps its timestamp, appended to the pruned record of its own
\* tool; a refused call records nothing), and it adds or overwrites no cache
\* entry: the cache changes only when a failed read had found the entry of
\* its own key expired, which it deleted.
C9_FailureKeepsAdmission ==
  [][\A T \in Tools :
       (Invoked(T) /\ IsFailure(result')) =>
         /\ rate_limiter' =
              IF last'.admitted
              THEN Put(rate_limiter, T,
                       Append(SelectSeq(Record(rate_limiter, T),
                                        LAMBDA x : now - x < RATE_WINDOW), now))
              ELSE rate_limiter
         /\ result' = RateLimitError <=> (last'.checked /\ ~last'.admitted)
         /\ cache' =
              IF /\ T = "get_file_contents" /\ last'.admitted
                 /\ last'.key \in DOMAIN cache
                 /\ last'.lookedAt - cache[last'.key].timestamp >= CACHE_TTL
              THEN [K \in DOMAIN cache \ {last'.key} |-> cache[K]]
              ELSE cache]_vars

\* C9's case: a call that was admitted and then failed (validation or
\* provider) and whose timestamp is in its tool's record
C9_Witness ==
  /\ IsFailure(result)
  /\ last.admitted
  /\ result # RateLimitError
  /\ last.tool \in DOMAIN rate_limiter
  /\ rate_limiter[last.tool][Len(rate_limiter[last.tool])] = last.at
  /\ last.expired

\* C10 as stated: a write whose content is longer than MAX_FILE_BYTES in
\* UTF-8 returns 'File too large (max 1MB)' without asking for the client
\* and without a provider call; content of exactly MAX_FILE_BYTES bytes is
\* not refused for its size.
C10_OversizedAlwaysTooLarge ==
  last.tool = "create_or_update_file" =>
    /\ last.bytes > MAX_FILE_BYTES =>
         /\ result = [success |-> FALSE, error |-> "File too large (max 1MB)"]
         /\ ~last.getclient
         /\ last.calls = <<>>
    /\ (last.bytes >= 0 /\ last.bytes <= MAX_FILE_BYTES) =>
         result # [success |-> FALSE, error |-> "File too large (max 1MB)"]

\* C10 as amended: a write the rate limiter admits whose content is longer
\* than MAX_FILE_BYTES in UTF-8 returns 'File too large (max 1MB)' without
\* asking for the client (so whatever GITHUB_TOKEN holds) and without a
\* provider call, and admitted content of exactly MAX_FILE_BYTES bytes passes
\* the size check; a write the rate limiter refuses returns the rate-limit
\* envelope whatever its size, without a client or a provider call.
C10_OversizedRejectedFirst ==
  /\ (last.tool = "create_or_update_file" /\ last.admitted) =>
       /\ last.bytes > MAX_FILE_BYTES =>
            /\ result = [success |-> FALSE, error |-> "File too large (max 1MB)"]
            /\ ~last.getclient
            /\ last.calls = <<>>
       /\ (last.bytes >= 0 /\ last.bytes <= MAX_FILE_BYTES) =>
            /\ last.getclient
            /\ result # [success |-> FALSE, error |-> "File too large (max 1MB)"]
  /\ (last.tool = "create_or_update_file" /\ last.checked /\ ~last.admitted) =>
       /\ result = RateLimitError
       /\ ~last.getclient
       /\ last.calls = <<>>

\* C10's case: an admitted oversized write was refused for its size while no
\* client had ever been built, its content holding fewer than MAX_FILE_BYTES
\* characters
C10_Witness ==
  /\ last.tool = "create_or_update_file"
  /\ last.admitted
  /\ last.bytes > MAX_FILE_BYTES
  /\ StrLen(last.text) < MAX_FILE_BYTES
  /\ result = Failure("File too large (max 1MB)")
  /\ github_client = None

\* the entry e2 is the entry e1 but for the served-from-cache tag of its payload
SameButTag(e1, e2) ==
  /\ e2.timestamp = e1.timestamp
  /\ e2.value.success = e1.value.success
  /\ e2.value.content = e1.value.content
  /\ e2.value.size = e1.value.size

\* entry K of the cache was gained or overwritten by the step
Written(K) ==
  /\ K \in DOMAIN cache'
  /\ K \in DOMAIN cache => ~SameButTag(cache[K], cache'[K])

\* C11: the cache gains or overwrites the entry of key K only in a step that
\* is a read of K whose get_repo and get_contents calls answered and whose
\* decode succeeded, and the entry then holds that read's result and the
\* clock reading of its set_cache; a read that fails, a read served from the cache and every
\* invocation of another tool write no entry (a read served from the cache
\* changes nothing of its entry but the tag of the payload it returns).
C11_OnlyFetchWritesCache ==
  [][/\ \A K \in DOMAIN cache' :
          Written(K) =>
            /\ Invoked("get_file_contents") /\ last'.key = K
            /\ last'.admitted /\ last'.stored
            /\ last'.calls = <<[call |-> "get_repo", answer |-> "ok", sha |-> ""],
                               [call |-> "get_contents", answer |-> "ok", sha |-> ""]>>
            /\ IsSuccess(result') /\ result'.cached = FALSE
            /\ cache'[K] = [value |-> result', timestamp |-> last'.end]
     /\ \A K \in DOMAIN cache \cap DOMAIN cache' :
          cache'[K] # cache[K] =>
            /\ Invoked("get_file_contents") /\ last'.key = K
            /\ cache'[K].value = result'
     /\ \A T \in Tools :
          (Invoked(T) /\ (T # "get_file_contents" \/ ~IsSuccess(result'))) =>
            /\ ~last'.stored
            /\ \A K \in DOMAIN cache' : K \in DOMAIN cache /\ cache'[K] = cache[K]]_vars

\* C11's case: a read that fetched and decoded stored its result over an
\* entry an earlier read had written (and that had expired)
C11_Witness ==
  /\ last.tool = "get_file_contents"
  /\ last.stored /\ last.expired
  /\ IsSuccess(result)
  /\ last.key \in DOMAIN cache
  /\ cache[last.key] = [value |-> result, timestamp |-> last.end]
  /\ Len(last.calls) = 2

\* C12: an invocation of tool U leaves the record of every other tool as it
\* was and creates no record but its own; whether it is admitted is decided by
\* U's own record and the clock alone (fewer than RATE_LIMIT of U's timestamps
\* within the window), so it is admitted whatever the other records hold,
\* full ones included.  connection_status changes no record.
C12_PerToolIsolation ==
  [][\A U \in Tools :
       Invoked(U) =>
         /\ DOMAIN rate_limiter' \ {U} = DOMAIN rate_limiter \ {U}
         /\ \A T \in DOMAIN rate_limiter \ {U} : rate_limiter'[T] = rate_limiter[T]
         /\ U \in RateLimitedTools =>
              /\ last'.checked
              /\ last'.admitted <=> Len(InWindow(U)) < RATE_LIMIT
              /\ result' = RateLimitError <=> Len(InWindow(U)) >= RATE_LIMIT
              /\ rate_limiter'[U] =
                   IF Len(InWindow(U)) < RATE_LIMIT
                   THEN Append(InWindow(U), now) ELSE InWindow(U)
         /\ U = "connection_status" => rate_limiter' = rate_limiter]_vars

\* C12's case: a tool was admitted while another tool's record held
\* RATE_LIMIT timestamps within the window and had refused a call
C12_Witness ==
  /\ last.tool \in RateLimitedTools
  /\ last.admitted
  /\ last.before > 0
  /\ \E T \in DOMAIN rate_limiter \ {last.tool} :
       /\ Len(InWindow(T)) >= RATE_LIMIT
       /\ Len(rate_limiter[T]) = RATE_LIMIT

\* the handles that calls of get_github_client have returned
Returned == {frames[p].out : p \in {q \in DOMAIN frames : "token" \in DOMAIN frames[q].out}}

\* C13: with the first uses interleaved at the statements of
\* get_github_client, Github(token) is constructed at most once, every call
\* that returns a handle returns the one handle the process holds, and a call
\* that found GITHUB_TOKEN absent has raised the configuration error.
C13_ClientBuiltOnce ==
  workload = "first use" =>
    /\ built <= 1
    /\ Returned \subseteq {github_client}
    /\ github_client = None <=> built = 0
    /\ \A p \in DOMAIN frames :
         (frames[p].pc = "idle" /\ frames[p].calls > 0) =>
           \/ frames[p].out = github_client
           \/ /\ frames[p].out = Raised("GITHUB_TOKEN not set")
              /\ frames[p].token \in {Unset, ""}

\* C14: every successful connection_status response holds, for every tool
\* invoked before it, an entry of mcp_rate_limits whose used is the number of
\* the tool's recorded timestamps within the window at a clock reading of
\* the call, with used + remaining = RATE_LIMIT and remaining >= 0.
C14_StatusCoversInvokedTools ==
  (last.tool = "connection_status" /\ IsSuccess(result)) =>
    \A T \in last.earlier :
      /\ T \in DOMAIN result.mcp_rate_limits
      /\ \E t \in last.at..last.end :
           result.mcp_rate_limits[T].used = Len(Active(Record(rate_limiter, T), t))
      /\ result.mcp_rate_limits[T].used + result.mcp_rate_limits[T].remaining = RATE_LIMIT
      /\ result.mcp_rate_limits[T].remaining >= 0

\* C15: a successful search_code returns the first min(n, SEARCH_LIMIT) of
\* the n items the provider returned, in the provider's order; count is the
\* length of the returned list and total_count is the total the provider
\* reported.
C15_SearchCapped ==
  (last.tool = "search_code" /\ IsSuccess(result)) =>
    LET items == last.reply.items
        k     == IF Len(items) < SEARCH_LIMIT THEN Len(items) ELSE SEARCH_LIMIT
    IN /\ Len(result.results) = k
       /\ \A i \in 1..k : result.results[i] = items[i]
       /\ result.count = Len(result.results)
       /\ result.total_count = last.reply.total

\* C15's case: the provider returned more than SEARCH_LIMIT items and
\* reported a larger total still
C15_Witness ==
  /\ last.tool = "search_code"
  /\ IsSuccess(result)
  /\ Len(last.reply.items) > SEARCH_LIMIT
  /\ last.reply.total > Len(last.reply.items)
  /\ result.count = SEARCH_LIMIT
  /\ result.total_count > result.count

\* C16: with reads interleaved at the steps of get_cached, a read that
\* started while the entry of its key was present and expired completes the
\* lookup as a miss and returns an envelope: get_cached does not raise.
C16_ExpiredLookupIsMiss ==
  workload = "lookup" =>
    \A p \in DOMAIN frames :
      (frames[p].stale /\ frames[p].pc = "idle") =>
        /\ frames[p].lookup = "miss"
        /\ IsEnvelope(frames[p].out)

\* C17: every read checks the rate limit before anything else, so a read that
\* is admitted, served from the cache or not, appends one timestamp to the
\* record of "get_file_contents"; with RATE_LIMIT reads recorded within the
\* window, a read of a key whose entry is still valid is refused with the
\* rate-limit envelope: the cache is not looked up and stays as it was.
C17_RateLimitBeforeCache ==
  [][Invoked("get_file_contents") =>
       LET K     == last'.key
           valid == /\ K \in DOMAIN cache
                    /\ last'.lookedAt - cache[K].timestamp < CACHE_TTL
           full  == Len(InWindow("get_file_contents")) >= RATE_LIMIT
       IN /\ last'.checked
          /\ last'.admitted <=> ~full
          /\ last'.admitted =>
               rate_limiter'["get_file_contents"] =
                 Append(InWindow("get_file_contents"), now)
          /\ (valid /\ ~full) => (IsSuccess(result') /\ result'.cached = TRUE)
          /\ full =>
               /\ result' = RateLimitError
               /\ ~last'.lookup /\ last'.calls = <<>>
               /\ cache' = cache
               /\ rate_limiter'["get_file_contents"] = InWindow("get_file_contents")]_vars

\* C17's case: the read after RATE_LIMIT admitted reads (all but the first
\* served from the cache) was refused while the entry of its key was valid
C17_Witness ==
  /\ last.tool = "get_file_contents"
  /\ last.checked /\ ~last.admitted
  /\ result = RateLimitError
  /\ Len(Active(Record(rate_limiter, "get_file_contents"), last.at)) = RATE_LIMIT
  /\ last.key \in DOMAIN cache
  /\ last.at - cache[last.key].timestamp < CACHE_TTL
  /\ cache[last.key].value.cached = TRUE

\* C18 as stated: an invocation of create_or_update_file, whatever it
\* returns, leaves the cache as it was; so a read that follows a successful
\* write of content other than the cached one to the file of its key, and
\* that is admitted less than CACHE_TTL seconds after the read that stored
\* the key's entry, returns the cached content tagged cached = True without a
\* provider call.
C18_ReadAfterWriteWithinTtl ==
  [][/\ Invoked("create_or_update_file") => cache' = cache
     /\ LET K == last'.key IN
        (/\ Invoked("get_file_contents") /\ last'.admitted
         /\ last.tool = "create_or_update_file" /\ IsSuccess(result) /\ last.key = K
         /\ K \in DOMAIN cache
         /\ cache[K].value.content # last.text
         /\ now - cache[K].timestamp < CACHE_TTL) =>
          /\ IsSuccess(result') /\ result'.cached = TRUE
          /\ result'.content = cache[K].value.content
          /\ result'.content # last.text
          /\ last'.calls = <<>> /\ ~last'.stored
          /\ cache'[K].timestamp = cache[K].timestamp]_vars

\* C18 as amended: an invocation of create_or_update_file, whatever it
\* returns, leaves the cache as it was; so an admitted read that follows a
\* successful write of content other than the cached one to the file of its
\* key, and whose cache lookup reads the clock less than CACHE_TTL seconds
\* after the entry's timestamp, returns the cached content tagged
\* cached = True without a provider call.
C18_WriteLeavesCache ==
  [][/\ Invoked("create_or_update_file") => cache' = cache
     /\ LET K == last'.key IN
        (/\ Invoked("get_file_contents") /\ last'.admitted
         /\ last.tool = "create_or_update_file" /\ IsSuccess(result) /\ last.key = K
         /\ K \in DOMAIN cache
         /\ cache[K].value.content # last.text
         /\ last'.lookedAt - cache[K].timestamp < CACHE_TTL) =>
          /\ IsSuccess(result') /\ result'.cached = TRUE
          /\ result'.content = cache[K].value.content
          /\ result'.content # last.text
          /\ last'.calls = <<>> /\ ~last'.stored
          /\ cache'[K].timestamp = cache[K].timestamp]_vars

\* C18's case: a read served from the cache, CACHE_TTL - 1 seconds after the
\* read that filled it, right after a successful write of other content to
\* the same file
C18_Witness ==
  /\ last.tool = "get_file_contents"
  /\ IsSuccess(result) /\ result.cached = TRUE
  /\ last.calls = <<>>
  /\ last.prev.tool = "create_or_update_file"
  /\ last.prev.success
  /\ last.prev.key = last.key
  /\ last.prev.text # result.content
  /\ last.lookedAt - cache[last.key].timestamp = CACHE_TTL - 1

\* C19: reads of different (repo, branch, path) triples use different cache
\* entries: a read served from the cache right after a successful read of the
\* same cache key has the arguments of that read, so the payload it returns
\* was stored for its own triple.
C19_HitOnlyForSameTriple ==
  (/\ last.tool = "get_file_contents"
   /\ IsSuccess(result) /\ result.cached = TRUE
   /\ last.prev.tool = "get_file_contents" /\ last.prev.success
   /\ last.prev.key = last.key) =>
    last.prev.args = last.args

====
